---- MODULE Spec2Model ----
(***************************************************************************)
(* A model of crawl.py: a single-domain breadth-first crawler that scans   *)
(* every fetched page for keywords.                                        *)
(*                                                                         *)
(* Strings are sequences of one-character strings, so that split, lower,   *)
(* strip and the regular-expression substitutions are computed character   *)
(* by character, as Python computes them.                                  *)
(***************************************************************************)
EXTENDS Integers, Sequences, FiniteSets, TLC

VARIABLES
    queue,        \* main: the deque of URLs awaiting a visit
    visited,      \* main: the set of URLs already handed to process_url
    results,      \* main: the list of (final_url, match type, context) tuples
    main_domain,  \* main: netloc of the initial URL
    url,          \* main: the URL popped last
    response,     \* process_url: the response of requests.get, once it succeeded
    new_links,    \* main: the list process_url returned
    pc,           \* position in main / process_url
    fetched,      \* transport: per URL, the number of requests.get calls made on it
    outcome,      \* process_url: the return statement the last call left through
    csvfile,      \* save_to_csv: the file written at the end of the run
    call          \* a call of one of the pure helpers: arguments and returned value

vars == <<queue, visited, results, main_domain, url, response, new_links, pc,
          fetched, outcome, csvfile, call>>

crawl_vars == <<queue, visited, results, main_domain, url, response, new_links,
                fetched, outcome, csvfile>>

-----------------------------------------------------------------------------
(* Bounds of the model *)

\* most anchors on one page, beside those of its body
MaxLinks == 2
\* longest url_netloc / main_domain argument of the scope test
MaxHostLen == 4
\* longest argument of normalize_text
MaxNormLen == 3
\* longest haystack of contains_keyword
MaxTextLen == 2
\* longest keyword of contains_keyword
MaxKwLen == 2

-----------------------------------------------------------------------------
(* Characters and the str / re primitives the helpers use *)

Max(a, b) == IF a >= b THEN a ELSE b

UpperCase == <<"A","B","C","D","E","F","G","H","I","J","K","L","M",
               "N","O","P","Q","R","S","T","U","V","W","X","Y","Z">>
LowerCase == <<"a","b","c","d","e","f","g","h","i","j","k","l","m",
               "n","o","p","q","r","s","t","u","v","w","x","y","z">>
Digits == {"0","1","2","3","4","5","6","7","8","9"}

Range(s) == {s[i] : i \in DOMAIN s}

\* \w of the re module, on the ASCII part of the alphabet
IsWordChar(c) == c \in Range(UpperCase) \cup Range(LowerCase) \cup Digits \cup {"_"}

\* \s of the re module, and the characters str.strip() removes
IsSpaceChar(c) == c \in {" ", "\t", "\n", "\r"}

\* str.lower() on one character
LowerChar(c) ==
    IF \E i \in DOMAIN UpperCase : UpperCase[i] = c
    THEN LowerCase[CHOOSE i \in DOMAIN UpperCase : UpperCase[i] = c]
    ELSE c

\* str.lower()
Lower(s) == [i \in DOMAIN s |-> LowerChar(s[i])]

\* str.strip(): leading and trailing whitespace removed
RECURSIVE LStrip(_)
LStrip(s) ==
    IF s # << >> /\ IsSpaceChar(Head(s)) THEN LStrip(Tail(s)) ELSE s

RECURSIVE RStrip(_)
RStrip(s) ==
    IF s # << >> /\ IsSpaceChar(s[Len(s)])
    THEN RStrip(SubSeq(s, 1, Len(s) - 1))
    ELSE s

Strip(s) == RStrip(LStrip(s))

\* re.sub(r'[^\w\s-]', '', s)
KeepWordSpaceHyphen(c) == IsWordChar(c) \/ IsSpaceChar(c) \/ c = "-"
ReSubNotWordSpaceHyphen(s) == SelectSeq(s, KeepWordSpaceHyphen)

\* re.sub(r'[\s-]', '', s)
KeepNotSpaceHyphen(c) == ~(IsSpaceChar(c) \/ c = "-")
ReSubSpaceHyphen(s) == SelectSeq(s, KeepNotSpaceHyphen)

\* re.search(re.escape(pattern), s): pattern occurs in s as a literal
ReSearchLiteral(pattern, s) ==
    \E i \in 0..(Len(s) - Len(pattern)) : SubSeq(s, i + 1, i + Len(pattern)) = pattern

\* str.split(sep), sep one character
RECURSIVE Split(_, _)
Split(s, sep) ==
    IF \E i \in DOMAIN s : s[i] = sep
    THEN LET i == CHOOSE k \in DOMAIN s : s[k] = sep /\ \A j \in 1..(k - 1) : s[j] # sep
         IN  <<SubSeq(s, 1, i - 1)>> \o Split(SubSeq(s, i + 1, Len(s)), sep)
    ELSE <<s>>

\* the slice seq[-n:] (seq[-0:] is seq[0:], the whole list; a start before the
\* first element is clamped to it)
SliceLast(seq, n) ==
    IF n = 0 THEN seq ELSE SubSeq(seq, Max(Len(seq) - n, 0) + 1, Len(seq))

-----------------------------------------------------------------------------
(* The pure helpers of crawl.py *)

\* is_subdomain_of with the labels compared replaced by a suffix test on the
\* characters, url_netloc.endswith(main_domain)
is_subdomain_of_endswith(url_netloc, domain) ==
    /\ Len(url_netloc) >= Len(domain)
    /\ SubSeq(url_netloc, Len(url_netloc) - Len(domain) + 1, Len(url_netloc)) = domain

is_subdomain_of(url_netloc, domain) ==
    LET main_parts == Split(domain, ".")
        url_parts  == Split(url_netloc, ".")
    IN  SliceLast(url_parts, Len(main_parts)) = main_parts

\* normalize_text with strip() applied before the substitution
normalize_text_strip_first(text) == ReSubNotWordSpaceHyphen(Strip(Lower(text)))

normalize_text(text) == Strip(ReSubNotWordSpaceHyphen(Lower(text)))

\* contains_keyword, line 24: the haystack as it is searched
normalized_text(text) == ReSubSpaceHyphen(normalize_text(text))

\* contains_keyword, line 23: one keyword as it is searched for
normalized_keyword(keyword) == ReSubSpaceHyphen(Lower(keyword))

\* contains_keyword with the keywords' lower() left out
contains_keyword_case_sensitive(text, keywords) ==
    \E k \in DOMAIN keywords :
        ReSearchLiteral(ReSubSpaceHyphen(keywords[k]), normalized_text(text))

contains_keyword(text, keywords) ==
    \E k \in DOMAIN keywords :
        ReSearchLiteral(normalized_keyword(keywords[k]), normalized_text(text))

-----------------------------------------------------------------------------
(* URLs.  A URL is its netloc and its path; the scheme is https throughout. *)
(* An href is a URL too: one with an empty netloc is a reference relative   *)
(* to the page (urlparse(href).netloc == ''), and the href with an empty    *)
(* netloc and an empty path is the missing or empty attribute.              *)

\* urljoin(base, href), for absolute URLs and absolute-path references
urljoin(base, href) ==
    IF href.netloc = << >> THEN [netloc |-> base.netloc, path |-> href.path] ELSE href

\* the URL as the string requests and the visited set see it
UrlString(u) == <<"h","t","t","p","s",":","/","/">> \o u.netloc \o u.path

NoHref == [netloc |-> << >>, path |-> << >>]

-----------------------------------------------------------------------------
(* The parsed document.  A document is the sequence of its elements in      *)
(* document order; an element names its parent by index (0: none), so the   *)
(* descendants of an element follow it.  An element's own text is one text  *)
(* node that precedes its children.                                         *)

\* process_url, line 52
keywords ==
    << <<"g","o","w","i","t","h","g","u","i","d","e">>,
       <<"g","o"," ","w","i","t","h"," ","g","u","i","d","e">>,
       <<"g","o","-","w","i","t","h","-","g","u","i","d","e">>,
       <<"8","7","1","2","1">> >>

\* process_url, line 79
banner_terms ==
    << <<"b","a","n","n","e","r">>, <<"p","r","o","m","o">>, <<"c","t","a">>,
       <<"a","d">>, <<"w","i","d","g","e","t">>, <<"o","f","f","e","r">> >>

\* process_url, line 76
ContainerTags == {"div", "section", "header", "footer", "aside", "article", "nav"}

\* process_url, line 97
LinkTags == {"a", "link", "area", "base"}

\* sep.join(parts)
RECURSIVE Join(_, _)
Join(parts, sep) ==
    IF parts = << >> THEN << >>
    ELSE IF Len(parts) = 1 THEN parts[1]
    ELSE parts[1] \o sep \o Join(Tail(parts), sep)

\* whether element j lies inside element i
RECURSIVE IsDescendant(_, _, _)
IsDescendant(doc, i, j) ==
    /\ doc[j].parent # 0
    /\ \/ doc[j].parent = i
       \/ IsDescendant(doc, i, doc[j].parent)

\* the indices in S, ascending
RECURSIVE Ascending(_)
Ascending(S) ==
    IF S = {} THEN << >>
    ELSE LET m == CHOOSE x \in S : \A y \in S : x <= y
         IN  <<m>> \o Ascending(S \ {m})

\* element.find_all(True): the descendants of element i, in document order
FindAll(doc, i) == Ascending({j \in DOMAIN doc : IsDescendant(doc, i, j)})

\* soup.find_all(tags): the elements with one of the tags, in document order
SoupFindAll(doc, tags) == Ascending({j \in DOMAIN doc : doc[j].tag \in tags})

\* the text of the element's own text node only, as element.string gives it
GetText_own_text(doc, i, sep) == Strip(doc[i].text)

\* element.get_text(separator=sep, strip=True): the stripped, non-empty text
\* nodes of the element and its descendants, joined by sep
GetText(doc, i, sep) ==
    LET nodes  == <<i>> \o FindAll(doc, i)
        pieces == [k \in DOMAIN nodes |-> Strip(doc[nodes[k]].text)]
    IN  Join(SelectSeq(pieces, LAMBDA t : t # << >>), sep)

\* str(element)[:100], as far as the model tells elements apart: the start
\* of the element's opening tag
Markup(doc, i) == <<"<", doc[i].tag>>

\* check_banner, lines 61-66: the first img inside the element whose alt
\* contains a keyword, or 0
FirstKeywordImg(doc, i) ==
    LET imgs == {j \in DOMAIN doc :
                    /\ IsDescendant(doc, i, j)
                    /\ doc[j].tag = "img"
                    /\ contains_keyword(doc[j].alt, keywords)}
    IN  IF imgs = {} THEN 0 ELSE CHOOSE j \in imgs : \A k \in imgs : j <= k

\* check_banner: the records one call appends (none, or one)
check_banner_records(doc, i, final_url) ==
    IF contains_keyword(GetText(doc, i, <<" ">>), keywords)
    THEN << <<final_url, "Keyword in banner text", Markup(doc, i)>> >>
    ELSE IF FirstKeywordImg(doc, i) # 0
    THEN << <<final_url, "Keyword in banner image alt",
              Markup(doc, FirstKeywordImg(doc, i))>> >>
    ELSE IF /\ ReSearchLiteral(<<"b","a","c","k","g","r","o","u","n","d","-",
                                 "i","m","a","g","e">>, doc[i].style)
            /\ contains_keyword(doc[i].style, keywords)
    THEN << <<final_url, "Keyword in banner background", Markup(doc, i)>> >>
    ELSE << >>

\* check_banner: the value returned
check_banner(doc, i, final_url) == check_banner_records(doc, i, final_url) # << >>

\* the concatenation of f[1], ..., f[n]
RECURSIVE Concat(_)
Concat(seqs) == IF seqs = << >> THEN << >> ELSE Head(seqs) \o Concat(Tail(seqs))

\* process_url, lines 78-80
is_banner(doc, i) ==
    LET classes == Lower(Join(doc[i].class, <<" ">>))
    IN  \E t \in DOMAIN banner_terms : ReSearchLiteral(banner_terms[t], classes)

\* line 82 as check_banner(container) or is_banner: the container is tested
\* before its class list is looked at
ContainerRecords_check_first(doc, i, final_url) ==
    IF check_banner(doc, i, final_url) THEN check_banner_records(doc, i, final_url)
    ELSE IF is_banner(doc, i) THEN << >>
    ELSE LET children == FindAll(doc, i)
         IN  Concat([k \in DOMAIN children |->
                        check_banner_records(doc, children[k], final_url)])

\* process_url, lines 77-86: the records one iteration of the container loop appends
ContainerRecords(doc, i, final_url) ==
    IF is_banner(doc, i) THEN << >>
    ELSE IF check_banner(doc, i, final_url) THEN check_banner_records(doc, i, final_url)
    ELSE LET children == FindAll(doc, i)
         IN  Concat([k \in DOMAIN children |->
                        check_banner_records(doc, children[k], final_url)])

\* process_url, lines 76-86
BannerRecords(doc, final_url) ==
    LET banner_containers == SoupFindAll(doc, ContainerTags)
    IN  Concat([k \in DOMAIN banner_containers |->
                   ContainerRecords(doc, banner_containers[k], final_url)])

\* soup.find(tag): the first element with the tag, or 0
SoupFind(doc, tag) ==
    LET found == SoupFindAll(doc, {tag}) IN IF found = << >> THEN 0 ELSE found[1]

\* soup.find('div', class_='content'): the first div with the class content, or 0
SoupFindContentDiv(doc) ==
    LET found == Ascending({j \in DOMAIN doc :
                     /\ doc[j].tag = "div"
                     /\ \E c \in DOMAIN doc[j].class :
                            doc[j].class[c] = <<"c","o","n","t","e","n","t">>})
    IN  IF found = << >> THEN 0 ELSE found[1]

\* the loop of lines 91-95 left at the first section that matches
MainContentRecords_first_match(doc, final_url) ==
    LET content_sections ==
            SelectSeq(<<SoupFind(doc, "main"), SoupFind(doc, "article"),
                        SoupFindContentDiv(doc)>>,
                      LAMBDA i : i # 0 /\ contains_keyword(GetText(doc, i, <<" ">>), keywords))
    IN  IF content_sections = << >> THEN << >>
        ELSE << <<final_url, "Keyword in main content", << >> >> >>

\* process_url, lines 88-95
MainContentRecords(doc, final_url) ==
    LET content_sections ==
            SelectSeq(<<SoupFind(doc, "main"), SoupFind(doc, "article"),
                        SoupFindContentDiv(doc)>>, LAMBDA i : i # 0)
    IN  Concat([k \in DOMAIN content_sections |->
                   IF contains_keyword(GetText(doc, content_sections[k], <<" ">>), keywords)
                   THEN << <<final_url, "Keyword in main content", << >> >> >>
                   ELSE << >>])

\* lines 97-106 with the scope test of line 115 applied to the link as well
LinkRecords_in_scope(doc, final_url) ==
    LET elements == SoupFindAll(doc, LinkTags)
    IN  Concat([k \in DOMAIN elements |->
                   LET element      == elements[k]
                       absolute_url == urljoin(final_url, doc[element].href)
                       link_text    == GetText(doc, element, << >>)
                   IN  IF /\ doc[element].href # NoHref
                          /\ is_subdomain_of(absolute_url.netloc, final_url.netloc)
                          /\ \/ contains_keyword(link_text, keywords)
                             \/ contains_keyword(UrlString(absolute_url), keywords)
                       THEN << <<final_url, "Keyword in link", UrlString(absolute_url)>> >>
                       ELSE << >>])

\* process_url, lines 97-106
LinkRecords(doc, final_url) ==
    LET elements == SoupFindAll(doc, LinkTags)
    IN  Concat([k \in DOMAIN elements |->
                   LET element      == elements[k]
                       absolute_url == urljoin(final_url, doc[element].href)
                       link_text    == GetText(doc, element, << >>)
                   IN  IF /\ doc[element].href # NoHref
                          /\ \/ contains_keyword(link_text, keywords)
                             \/ contains_keyword(UrlString(absolute_url), keywords)
                       THEN << <<final_url, "Keyword in link", UrlString(absolute_url)>> >>
                       ELSE << >>])

\* process_url, lines 54-106: the records the analysis of one page appends
PageRecords(doc, final_url) ==
    BannerRecords(doc, final_url) \o MainContentRecords(doc, final_url)
        \o LinkRecords(doc, final_url)

\* a membership test on visited that never finds the URL
AlreadyVisited_never(u, seen) == FALSE

\* the tests url in visited, absolute_url not in visited and link not in visited
\* of lines 29, 116 and 153
AlreadyVisited(u, seen) == u \in seen

\* process_url, lines 108-120: the list returned
ExtractedLinks(doc, final_url, domain, seen) ==
    LET links == SoupFindAll(doc, {"a"})
    IN  Concat([k \in DOMAIN links |->
                   LET absolute_url == urljoin(final_url, doc[links[k]].href)
                   IN  IF /\ doc[links[k]].href # NoHref
                          /\ is_subdomain_of(absolute_url.netloc, domain)
                          /\ ~AlreadyVisited(absolute_url, seen)
                       THEN <<absolute_url>>
                       ELSE << >>])

-----------------------------------------------------------------------------
(* The web the crawler runs on: the URLs that exist, and the documents a    *)
(* fetch may return.                                                        *)

SeedHost      == <<"e","x",".","c","o","m">>
SubHost       == <<"s","h","o","p",".","e","x",".","c","o","m">>
LookalikeHost == <<"n","o","t","e","x",".","c","o","m">>

RootURL      == [netloc |-> SeedHost,      path |-> <<"/">>]
PageURL      == [netloc |-> SeedHost,      path |-> <<"/","a">>]
ShopURL      == [netloc |-> SubHost,       path |-> <<"/">>]
LookalikeURL == [netloc |-> LookalikeHost, path |-> <<"/">>]

URLs == {RootURL, PageURL, ShopURL, LookalikeURL}

\* the values of sys.argv[1]
SeedURLs == {RootURL, ShopURL}

\* references relative to the page
RelativeRefs == {[netloc |-> << >>, path |-> <<"/">>]}

Element(tag, parent, class, text, alt, style, href) ==
    [tag |-> tag, parent |-> parent, class |-> class, text |-> text, alt |-> alt,
     style |-> style, href |-> href]

PlainText   == <<"h","i">>
KeywordText == <<"G","o"," ","W","i","t","h"," ","G","u","i","d","e">>
NumberText  == <<"8","7","1","2","1">>

\* a page without a keyword
PlainBody == << Element("main", 0, << >>, PlainText, << >>, << >>, NoHref) >>

\* a page with a keyword in a container, in its main element and in the text
\* of a link to the lookalike host
KeywordBody ==
    << Element("div",  0, << >>, NumberText,  << >>, << >>, NoHref),
       Element("main", 0, << >>, KeywordText, << >>, << >>, NoHref),
       Element("a",    0, << >>, NumberText,  << >>, << >>, LookalikeURL) >>

Bodies == {PlainBody, KeywordBody}

\* the further anchors of a page: plain links to the pages of the site, and a
\* reference relative to the page
Anchors ==
    {Element("a", 0, << >>, PlainText, << >>, << >>, h) :
        h \in {PageURL, ShopURL} \cup RelativeRefs}

AnchorLists == UNION {[1..n -> Anchors] : n \in 0..MaxLinks}

Docs == {body \o anchors : body \in Bodies, anchors \in AnchorLists}

\* where the redirects of a fetch may end: at the URL requested, at the shop,
\* or at the lookalike host
FinalURLs(u) == {u, ShopURL, LookalikeURL}

\* what requests.get(u) may answer: an exception or a non-2xx status, a
\* response that is not HTML, or an HTML page at the URL the redirects ended at
NoDoc == << >>
Responses(u) ==
    {[status |-> "error", final_url |-> NoHref, doc |-> NoDoc]}
        \cup {[status |-> "not_html", final_url |-> f, doc |-> NoDoc] : f \in FinalURLs(u)}
        \cup {[status |-> "html", final_url |-> f, doc |-> d] : f \in FinalURLs(u), d \in Docs}

\* PageRecords and ExtractedLinks on this web, each computed once
PageRecordsOf == [d \in Docs, f \in URLs |-> PageRecords(d, f)] @@ << >>

Hosts == {u.netloc : u \in URLs}
InScopeOf == [h \in Hosts, d \in Hosts |-> is_subdomain_of(h, d)] @@ << >>

\* the anchors of a document that lead into the main domain, visited or not
CandidatesOf ==
    [d \in Docs, f \in URLs, m \in Hosts |-> ExtractedLinks(d, f, m, {})] @@ << >>

\* ExtractedLinks, from the table
ExtractedLinksOf(doc, final_url, domain, seen) ==
    SelectSeq(CandidatesOf[doc, final_url, domain], LAMBDA l : ~AlreadyVisited(l, seen))

\* the anchors of the document whose href is relative to the page
RelativeAnchors(doc) ==
    {j \in DOMAIN doc :
        doc[j].tag = "a" /\ doc[j].href # NoHref /\ doc[j].href.netloc = << >>}

\* what the model keeps of a response: its status, response.url, and how many
\* match records, links into the main domain and anchors relative to the page
\* its document holds
Summary(r, domain) ==
    [status    |-> r.status,
     final_url |-> r.final_url,
     hits      |-> IF r.status = "html" THEN Len(PageRecordsOf[r.doc, r.final_url]) ELSE 0,
     links     |-> IF r.status = "html"
                   THEN Len(CandidatesOf[r.doc, r.final_url, domain]) ELSE 0,
     relative  |-> IF r.status = "html" THEN Cardinality(RelativeAnchors(r.doc)) ELSE 0]

NoResponse ==
    [status |-> "none", final_url |-> NoHref, hits |-> 0, links |-> 0, relative |-> 0]
NoCall     == [fn |-> "none"]
NoFile     == [written |-> FALSE, rows |-> << >>]

-----------------------------------------------------------------------------
(* main and process_url *)

Init ==
    \E initial_url \in SeedURLs :
        /\ main_domain = initial_url.netloc
        /\ queue = <<initial_url>>
        /\ visited = {}
        /\ results = << >>
        /\ url = NoHref
        /\ response = NoResponse
        /\ new_links = << >>
        /\ pc = "loop"
        /\ fetched = [u \in URLs |-> 0]
        /\ outcome = "none"
        /\ csvfile = NoFile
        /\ call = NoCall

\* deque.popleft() with the element left in the deque (url = queue[0])
popleft_peek(q) == q

\* what deque.popleft() leaves in the deque
popleft(q) == Tail(q)

\* main, lines 149-151: the loop pops the next URL and calls process_url
Pop ==
    /\ pc = "loop"
    /\ queue # << >>
    /\ url' = Head(queue)
    /\ queue' = popleft(queue)
    /\ pc' = "process"
    /\ UNCHANGED <<visited, results, main_domain, response, new_links, fetched,
                   outcome, csvfile, call>>

\* process_url, lines 29-30: a URL seen before is not processed again
SkipVisited ==
    /\ pc = "process"
    /\ AlreadyVisited(url, visited)
    /\ new_links' = << >>
    /\ outcome' = "visited"
    /\ pc' = "enqueue"
    /\ UNCHANGED <<queue, visited, results, main_domain, url, response, fetched,
                   csvfile, call>>

\* visited.add(url) left out
MarkVisited_forgotten(u, seen) == seen

\* process_url, line 31
MarkVisited(u, seen) == seen \cup {u}

\* process_url, lines 29-32: a new URL is marked before it is fetched
Visit ==
    /\ pc = "process"
    /\ ~AlreadyVisited(url, visited)
    /\ visited' = MarkVisited(url, visited)
    /\ pc' = "fetch"
    /\ UNCHANGED <<queue, results, main_domain, url, response, new_links, fetched,
                   outcome, csvfile, call>>

\* process_url returns the empty list through one of its early returns
ReturnEmpty(r, how) ==
    /\ response' = Summary(r, main_domain)
    /\ fetched' = [fetched EXCEPT ![url] = @ + 1]
    /\ new_links' = << >>
    /\ outcome' = how
    /\ pc' = "enqueue"
    /\ UNCHANGED <<queue, visited, results, main_domain, url, csvfile, call>>

\* process_url, lines 34-39 without the try: the exception leaves process_url
\* and main
FetchError_uncaught ==
    /\ pc = "fetch"
    /\ \E r \in Responses(url) :
          /\ r.status = "error"
          /\ response' = Summary(r, main_domain)
    /\ fetched' = [fetched EXCEPT ![url] = @ + 1]
    /\ pc' = "raised"
    /\ UNCHANGED <<queue, visited, results, main_domain, url, new_links, outcome,
                   csvfile, call>>

\* process_url, lines 34-39: requests.get or raise_for_status raises
FetchError ==
    /\ pc = "fetch"
    /\ \E r \in Responses(url) : r.status = "error" /\ ReturnEmpty(r, "error")

\* process_url, lines 41-42: the response is not HTML
FetchNotHtml ==
    /\ pc = "fetch"
    /\ \E r \in Responses(url) : r.status = "not_html" /\ ReturnEmpty(r, "not_html")

\* the test of line 47 left out
FinalInScope_unchecked(final_url, domain) == TRUE

\* process_url, lines 44-47
FinalInScope(final_url, domain) == InScopeOf[final_url.netloc, domain]

\* process_url, lines 47-49: the redirects ended outside the main domain
FetchOutOfScope ==
    /\ pc = "fetch"
    /\ \E r \in Responses(url) :
        /\ r.status = "html"
        /\ ~FinalInScope(r.final_url, main_domain)
        /\ ReturnEmpty(r, "out_of_scope")

\* lines 51-120 with final_url = url at line 44: the page is analysed under
\* the URL that was requested
FetchAnalyze_requested_url ==
    /\ pc = "fetch"
    /\ \E r \in Responses(url) :
        /\ r.status = "html"
        /\ FinalInScope(r.final_url, main_domain)
        /\ response' = Summary(r, main_domain)
        /\ fetched' = [fetched EXCEPT ![url] = @ + 1]
        /\ results' = results \o PageRecordsOf[r.doc, url]
        /\ new_links' = ExtractedLinksOf(r.doc, url, main_domain, visited)
        /\ outcome' = "analyzed"
        /\ pc' = "enqueue"
        /\ UNCHANGED <<queue, visited, main_domain, url, csvfile, call>>

\* process_url, lines 51-120: the page is analysed and its links are returned
FetchAnalyze ==
    /\ pc = "fetch"
    /\ \E r \in Responses(url) :
        /\ r.status = "html"
        /\ FinalInScope(r.final_url, main_domain)
        /\ response' = Summary(r, main_domain)
        /\ fetched' = [fetched EXCEPT ![url] = @ + 1]
        /\ results' = results \o PageRecordsOf[r.doc, r.final_url]
        /\ new_links' = ExtractedLinksOf(r.doc, r.final_url, main_domain, visited)
        /\ outcome' = "analyzed"
        /\ pc' = "enqueue"
        /\ UNCHANGED <<queue, visited, main_domain, url, csvfile, call>>

\* main, lines 152-153: the links of new_links that are not in visited
Unvisited(links, seen) == SelectSeq(links, LAMBDA l : ~AlreadyVisited(l, seen))

\* queue.appendleft(link) for each link in turn
append_left(q, links) == [i \in 1..Len(links) |-> links[Len(links) + 1 - i]] \o q

\* main, line 154: queue.append(link) for each link in turn
append(q, links) == q \o links

\* main, lines 152-154: the returned links join the queue.  The call of
\* process_url is over: its response is gone with it.
Enqueue ==
    /\ pc = "enqueue"
    /\ queue' = append(queue, Unvisited(new_links, visited))
    /\ response' = NoResponse
    /\ outcome' = "none"
    /\ pc' = "loop"
    /\ UNCHANGED <<visited, results, main_domain, url, new_links, fetched,
                   csvfile, call>>

\* save_to_csv, lines 122-131
save_to_csv(rows, file) ==
    IF rows = << >> THEN file
    ELSE [written |-> TRUE,
          rows |-> << <<"Source URL", "Match Type", "Match Context">> >> \o rows]

\* main, lines 149 and 156-161: the queue is empty, the results are saved
Finish ==
    /\ pc = "loop"
    /\ queue = << >>
    /\ csvfile' = IF results # << >> THEN save_to_csv(results, csvfile) ELSE csvfile
    /\ pc' = "done"
    /\ UNCHANGED <<queue, visited, results, main_domain, url, response, new_links,
                   fetched, outcome, call>>

Next ==
    \/ Pop
    \/ SkipVisited
    \/ Visit
    \/ FetchError
    \/ FetchNotHtml
    \/ FetchOutOfScope
    \/ FetchAnalyze
    \/ Enqueue
    \/ Finish

Spec == Init /\ [][Next]_vars

\* the loop of main keeps running: no step of it waits on anything but the
\* blocking fetch, which returns or times out
SpecLive == Spec /\ WF_vars(Next)

-----------------------------------------------------------------------------
(* The pure helpers, each called on every argument of a bounded set.  The   *)
(* crawler does not run in these specifications.                            *)

CrawlIdle ==
    /\ main_domain = << >>
    /\ queue = << >>
    /\ visited = {}
    /\ results = << >>
    /\ url = NoHref
    /\ response = NoResponse
    /\ new_links = << >>
    /\ fetched = [u \in URLs |-> 0]
    /\ outcome = "none"
    /\ csvfile = NoFile

\* the strings over an alphabet, up to a length
Strings(alphabet, n) == UNION {[1..k -> alphabet] : k \in 0..n}

\* the hosts of section 4.2 and section 8 of the specification
ExampleCom  == <<"e","x","a","m","p","l","e",".","c","o","m">>
ShopExample == <<"s","h","o","p",".","e","x","a","m","p","l","e",".","c","o","m">>
WwwExample  == <<"w","w","w",".","e","x","a","m","p","l","e",".","c","o","m">>
NotExample  == <<"n","o","t","e","x","a","m","p","l","e",".","c","o","m">>
AttackerNet == <<"e","x","a","m","p","l","e",".","c","o","m",".",
                 "a","t","t","a","c","k","e","r",".","n","e","t">>
TopLevelCom == <<"c","o","m">>

ExampleHosts == {ExampleCom, ShopExample, WwwExample, NotExample, AttackerNet, TopLevelCom}

HostChars == {"a", "b", "."}

ScopeArguments == Strings(HostChars, MaxHostLen) \cup ExampleHosts

InitScope ==
    /\ CrawlIdle
    /\ pc = "call"
    /\ \E h \in ScopeArguments, d \in ScopeArguments :
          call = [fn |-> "is_subdomain_of", url_netloc |-> h, main_domain |-> d,
                  ret |-> FALSE]

\* is_subdomain_of, lines 10-14
ScopeReturn ==
    /\ pc = "call"
    /\ call.fn = "is_subdomain_of"
    /\ call' = [call EXCEPT !.ret = is_subdomain_of(call.url_netloc, call.main_domain)]
    /\ pc' = "return"
    /\ UNCHANGED crawl_vars

NextScope == ScopeReturn

SpecScope == InitScope /\ [][NextScope]_vars

NormChars == {"a", "A", "1", "_", "-", " ", "\t", "!"}

InitNormalize ==
    /\ CrawlIdle
    /\ pc = "call"
    /\ \E x \in Strings(NormChars, MaxNormLen) :
          call = [fn |-> "normalize_text", text |-> x, once |-> << >>, twice |-> << >>,
                  match_once |-> << >>, match_twice |-> << >>]

\* normalize_text, lines 16-18, and the haystack of contains_keyword, lines 22-24
NormalizeOnce ==
    /\ pc = "call"
    /\ call.fn = "normalize_text"
    /\ call' = [call EXCEPT !.once = normalize_text(call.text),
                            !.match_once = normalized_text(call.text)]
    /\ pc' = "once"
    /\ UNCHANGED crawl_vars

\* the same again, on what the first call returned
NormalizeTwice ==
    /\ pc = "once"
    /\ call' = [call EXCEPT !.twice = normalize_text(call.once),
                            !.match_twice = normalized_text(call.match_once)]
    /\ pc' = "return"
    /\ UNCHANGED crawl_vars

NextNormalize == NormalizeOnce \/ NormalizeTwice

SpecNormalize == InitNormalize /\ [][NextNormalize]_vars

TextChars == {"a", "A", "b", " ", "-", "!"}

\* the calls of section 8 of the specification
ExampleKeyword == <<"g","o"," ","w","i","t","h"," ","g","u","i","d","e">>
ExampleTexts ==
    { <<"G","o"," ","W","i","t","h"," ","G","u","i","d","e">>,
      <<"g","o","-","w","i","t","h","-","g","u","i","d","e">>,
      <<"G","O","W","I","T","H","G","U","I","D","E">>,
      <<"G","u","i","d","e","d"," ","t","o","u","r">> }

\* the keyword lists tried: none, one keyword, and two short ones
KeywordLists ==
    {<< >>}
        \cup {<<k>> : k \in Strings(TextChars, MaxKwLen)}
        \cup {<<k1, k2>> : k1, k2 \in Strings(TextChars, 1)}

InitKeyword ==
    /\ CrawlIdle
    /\ pc = "call"
    /\ \/ \E t \in Strings(TextChars, MaxTextLen), ks \in KeywordLists :
             call = [fn |-> "contains_keyword", text |-> t, keywords |-> ks, ret |-> FALSE]
       \/ \E t \in ExampleTexts :
             call = [fn |-> "contains_keyword", text |-> t,
                     keywords |-> <<ExampleKeyword>>, ret |-> FALSE]

\* contains_keyword, lines 20-25
KeywordReturn ==
    /\ pc = "call"
    /\ call.fn = "contains_keyword"
    /\ call' = [call EXCEPT !.ret = contains_keyword(call.text, call.keywords)]
    /\ pc' = "return"
    /\ UNCHANGED crawl_vars

\* str.upper() on one character
UpperChar(c) ==
    IF \E i \in DOMAIN LowerCase : LowerCase[i] = c
    THEN UpperCase[CHOOSE i \in DOMAIN LowerCase : LowerCase[i] = c]
    ELSE c

\* the spellings of s, no longer than n and over the same alphabet, that differ
\* from it in the case of one letter, or by one space or hyphen put in or taken out
Respellings(s, n) ==
    {t \in
        {[s EXCEPT ![i] = LowerChar(s[i])] : i \in DOMAIN s}
            \cup {[s EXCEPT ![i] = UpperChar(s[i])] : i \in DOMAIN s}
            \cup {SubSeq(s, 1, i) \o <<c>> \o SubSeq(s, i + 1, Len(s)) :
                     i \in 0..Len(s), c \in {" ", "-"}}
            \cup {SubSeq(s, 1, i - 1) \o SubSeq(s, i + 1, Len(s)) :
                     i \in {k \in DOMAIN s : s[k] \in {" ", "-"}}} :
        Len(t) <= n /\ t # s /\ Range(t) \subseteq TextChars}

\* contains_keyword called again with the text spelled another way
RespellText ==
    /\ pc = "return"
    /\ call.fn = "contains_keyword"
    /\ \E t \in Respellings(call.text, MaxTextLen) :
          call' = [call EXCEPT !.text = t,
                               !.ret = contains_keyword(t, call.keywords)]
    /\ UNCHANGED <<pc, crawl_vars>>

\* contains_keyword called again with one keyword spelled another way
RespellKeyword ==
    /\ pc = "return"
    /\ call.fn = "contains_keyword"
    /\ \E k \in DOMAIN call.keywords :
          \E w \in Respellings(call.keywords[k],
                                IF Len(call.keywords) = 1 THEN MaxKwLen ELSE 1) :
              LET ks == [call.keywords EXCEPT ![k] = w]
              IN  call' = [call EXCEPT !.keywords = ks,
                                       !.ret = contains_keyword(call.text, ks)]
    /\ UNCHANGED <<pc, crawl_vars>>

NextKeyword == KeywordReturn \/ RespellText \/ RespellKeyword

SpecKeyword == InitKeyword /\ [][NextKeyword]_vars

-----------------------------------------------------------------------------
(* The analysis of one page, lines 51-120 of process_url, pass by pass and  *)
(* one container at a time, on every document of a bounded set.  The page   *)
(* has been fetched from the root of the main domain without a redirect.    *)

MaxElements == 2

BannerClass  == <<"p","r","o","m","o","-","b","a","n","n","e","r">>
ContentClass == <<"c","o","n","t","e","n","t">>
KeywordStyle ==
    <<"b","a","c","k","g","r","o","u","n","d","-","i","m","a","g","e",":",
      "8","7","1","2","1">>

\* a reference relative to the page, with a keyword in its path
KeywordRef == [netloc |-> << >>, path |-> <<"/","8","7","1","2","1">>]

\* the elements a page is made of, as children of the element parent
PageElements(parent) ==
    { Element("div",     parent, << >>,             PlainText,  << >>,      << >>,        NoHref),
      Element("div",     parent, <<BannerClass>>,   NumberText, << >>,      << >>,        NoHref),
      Element("section", parent, << >>,             NumberText, << >>,      << >>,        NoHref),
      Element("p",       parent, << >>,             NumberText, << >>,      << >>,        NoHref),
      Element("img",     parent, << >>,             << >>,      NumberText, << >>,        NoHref),
      Element("span",    parent, << >>,             << >>,      << >>,      KeywordStyle, NoHref),
      Element("main",    parent, << >>,             PlainText,  << >>,      << >>,        NoHref),
      Element("main",    parent, << >>,             NumberText, << >>,      << >>,        NoHref),
      Element("article", parent, << >>,             PlainText,  << >>,      << >>,        NoHref),
      Element("div",     parent, <<ContentClass>>,  NumberText, << >>,      << >>,        NoHref),
      Element("a",       parent, << >>,             NumberText, << >>,      << >>,        LookalikeURL),
      Element("a",       parent, << >>,             NumberText, << >>,      << >>,        NoHref),
      Element("a",       parent, << >>,             PlainText,  << >>,      << >>,        PageURL),
      Element("link",    parent, << >>,             << >>,      << >>,      << >>,        KeywordRef),
      Element("area",    parent, << >>,             << >>,      << >>,      << >>,        KeywordRef),
      Element("base",    parent, << >>,             << >>,      << >>,      << >>,        PageURL) }

\* the documents of n elements: each element after the first is the child of
\* the element before it, or starts a new tree
RECURSIVE PagesOf(_)
PagesOf(n) ==
    IF n = 1 THEN {<<e>> : e \in PageElements(0)}
    ELSE {d \o <<e>> : d \in PagesOf(n - 1),
                       e \in PageElements(0) \cup PageElements(n - 1)}

PageDocs == UNION {PagesOf(n) : n \in 1..MaxElements}

InitPage ==
    /\ main_domain = SeedHost
    /\ queue = << >>
    /\ visited = {RootURL}
    /\ results = << >>
    /\ url = RootURL
    /\ response = NoResponse
    /\ new_links = << >>
    /\ fetched = [u \in URLs |-> IF u = RootURL THEN 1 ELSE 0]
    /\ outcome = "none"
    /\ csvfile = NoFile
    /\ pc = "containers"
    /\ \E d \in PageDocs :
          call = [fn |-> "process_url", doc |-> d, final_url |-> RootURL,
                  container |-> 1, appended |-> << >>]

\* process_url, line 76
banner_containers(doc) == SoupFindAll(doc, ContainerTags)

\* process_url, lines 77-86: one iteration of the container loop
ContainerIteration ==
    /\ pc = "containers"
    /\ call.container <= Len(banner_containers(call.doc))
    /\ LET container == banner_containers(call.doc)[call.container]
           appended  == ContainerRecords(call.doc, container, call.final_url)
       IN  /\ results' = results \o appended
           /\ call' = [call EXCEPT !.container = @ + 1, !.appended = appended]
    /\ UNCHANGED <<queue, visited, main_domain, url, response, new_links, pc,
                   fetched, outcome, csvfile>>

\* process_url, lines 88-95: the container loop is over, the content sections
\* are tested
ContentSections ==
    /\ pc = "containers"
    /\ call.container > Len(banner_containers(call.doc))
    /\ LET appended == MainContentRecords(call.doc, call.final_url)
       IN  /\ results' = results \o appended
           /\ call' = [call EXCEPT !.appended = appended]
    /\ pc' = "links"
    /\ UNCHANGED <<queue, visited, main_domain, url, response, new_links,
                   fetched, outcome, csvfile>>

\* process_url, lines 97-106
KeywordInLinks ==
    /\ pc = "links"
    /\ LET appended == LinkRecords(call.doc, call.final_url)
       IN  /\ results' = results \o appended
           /\ call' = [call EXCEPT !.appended = appended]
    /\ pc' = "extract"
    /\ UNCHANGED <<queue, visited, main_domain, url, response, new_links,
                   fetched, outcome, csvfile>>

\* process_url, lines 108-120
ExtractLinks ==
    /\ pc = "extract"
    /\ new_links' = ExtractedLinks(call.doc, call.final_url, main_domain, visited)
    /\ call' = [call EXCEPT !.appended = << >>]
    /\ pc' = "return"
    /\ UNCHANGED <<queue, visited, results, main_domain, url, response,
                   fetched, outcome, csvfile>>

NextPage == ContainerIteration \/ ContentSections \/ KeywordInLinks \/ ExtractLinks

SpecPage == InitPage /\ [][NextPage]_vars

-----------------------------------------------------------------------------
(* The claims *)

\* how often u occurs in the sequence q
Occurrences(q, u) == Cardinality({i \in DOMAIN q : q[i] = u})

\* host is domain, or ends with a dot followed by domain: the labels of host
\* end with the labels of domain
LabelSuffix(host, domain) ==
    \/ host = domain
    \/ /\ Len(host) > Len(domain)
       /\ \A i \in 1..Len(domain) : host[Len(host) - Len(domain) + i] = domain[i]
       /\ host[Len(host) - Len(domain)] = "."

\* C1: no URL is fetched more than once in a run, however often it is
\* discovered or queued.
C1_FetchedAtMostOnce == \A u \in URLs : fetched[u] <= 1

\* a URL that was queued twice is popped the second time, after its one fetch,
\* and skipped
C1_Witness ==
    /\ pc = "enqueue"
    /\ outcome = "visited"
    /\ fetched[url] = 1

\* C2: when the fetch of a URL is requested the URL is already in visited, and
\* every URL a fetch was attempted on is in visited ever after, whatever the
\* fetch answered.
C2_VisitedBeforeFetch ==
    /\ pc = "fetch" => url \in visited
    /\ \A u \in URLs : fetched[u] > 0 => u \in visited
    /\ pc = "enqueue" /\ outcome # "visited" =>
          /\ outcome \in {"error", "not_html", "out_of_scope", "analyzed"}
          /\ url \in visited

\* the URL is marked and its fetch is about to be requested
C2_Witness ==
    /\ pc = "fetch"
    /\ url \in visited
    /\ fetched[url] = 0
    /\ Cardinality(visited) > 1

\* C3: no step adds an occurrence of a URL that is in visited to the queue.
C3_NoVisitedEnqueued ==
    [][\A u \in visited : Occurrences(queue', u) <= Occurrences(queue, u)]_vars

\* a page all of whose anchors lead to visited URLs of the main domain returned
\* no link
C3_Witness ==
    /\ pc = "enqueue"
    /\ outcome = "analyzed"
    /\ response.hits = 0
    /\ response.links = MaxLinks
    /\ new_links = << >>

\* C4 as claimed: no URL occurs twice in the queue.
C4_QueueDuplicateFree ==
    \A i, j \in DOMAIN queue : i # j => queue[i] # queue[j]

\* C4 as amended: the enqueue step appends only URLs that are not in visited,
\* and a URL popped when it is in visited already is skipped without a fetch.
C4_DuplicatesSkipped ==
    [][/\ pc = "enqueue" =>
            /\ Len(queue') >= Len(queue)
            /\ \A i \in (DOMAIN queue') \ (DOMAIN queue) : queue'[i] \notin visited
       /\ pc = "process" /\ url \in visited =>
            /\ pc' = "enqueue"
            /\ new_links' = << >>
            /\ fetched' = fetched
            /\ results' = results]_vars

\* the queue holds a URL twice
C4_Witness == \E i, j \in DOMAIN queue : i # j /\ queue[i] = queue[j]

\* C5: the loop of main ends, with the queue empty: every URL that was put into
\* the queue has been popped.
C5_Terminates == <>(pc = "done" /\ queue = << >>)

\* a run over all three pages of the main domain has ended
C5_Witness ==
    /\ pc = "done"
    /\ queue = << >>
    /\ visited = {RootURL, PageURL, ShopURL}

\* C6: a page whose final URL lies outside the main domain leaves the results
\* as they are and returns no link, and the enqueue step that follows leaves
\* the queue as it is.
C6_OutOfScopeDiscarded ==
    [][/\ /\ pc = "fetch"
          /\ response'.status = "html"
          /\ ~LabelSuffix(response'.final_url.netloc, main_domain)
          => /\ results' = results
             /\ new_links' = << >>
             /\ queue' = queue
       /\ /\ pc = "enqueue"
          /\ response.status = "html"
          /\ ~LabelSuffix(response.final_url.netloc, main_domain)
          => /\ results' = results
             /\ queue' = queue]_vars

\* a page with keywords and with links into the main domain was discarded
C6_Witness ==
    /\ pc = "enqueue"
    /\ outcome = "out_of_scope"
    /\ response.hits > 0
    /\ response.links > 0
    /\ new_links = << >>

\* C7: a fetch that fails, or that answers something that is not HTML, appends
\* no record and returns no link; the loop goes on to the next URL with the
\* queue as it was, and the URL is not fetched again.
C7_FailureSkipsPage ==
    [][/\ pc = "fetch" /\ response'.status \in {"error", "not_html"}
          => /\ results' = results
             /\ new_links' = << >>
             /\ queue' = queue
             /\ pc' = "enqueue"
             /\ fetched'[url] = 1
       /\ pc = "enqueue" /\ response.status \in {"error", "not_html"}
          => /\ results' = results
             /\ queue' = queue
             /\ url \in visited'
             /\ pc' = "loop"
       /\ pc = "fetch" => pc' = "enqueue"]_vars

\* a fetch failed while other URLs wait in the queue
C7_Witness ==
    /\ pc = "enqueue"
    /\ outcome = "error"
    /\ queue # << >>
    /\ results # << >>

\* C8: is_subdomain_of is true exactly when the labels of the host end with the
\* labels of the domain.
C8_ScopeIsLabelSuffix ==
    pc = "return" /\ call.fn = "is_subdomain_of" =>
        (call.ret <=> LabelSuffix(call.url_netloc, call.main_domain))

\* shop.example.com is found in scope of example.com
C8_Witness ==
    /\ pc = "return"
    /\ call.fn = "is_subdomain_of"
    /\ call.url_netloc = ShopExample
    /\ call.main_domain = ExampleCom
    /\ call.ret = TRUE

\* the text with every character that is not a word character removed, in
\* lower case
WordCharsOf(text) == SelectSeq(Lower(text), IsWordChar)

\* the keyword without its spaces and hyphens, in lower case
Unseparated(keyword) == SelectSeq(Lower(keyword), LAMBDA c : ~IsSpaceChar(c) /\ c # "-")

\* k occurs in t
Occurs(k, t) ==
    \E i \in 1..(Len(t) + 1) : \A j \in 1..Len(k) : i + j - 1 <= Len(t) /\ t[i + j - 1] = k[j]

\* C9: contains_keyword is true exactly when a keyword, without its spaces and
\* hyphens and in lower case, occurs in the word characters of the text in lower
\* case; and the result is the same for every other spelling of the text or of
\* a keyword.
C9_KeywordMatch ==
    /\ [](pc = "return" /\ call.fn = "contains_keyword" =>
            (call.ret <=> \E k \in DOMAIN call.keywords :
                              Occurs(Unseparated(call.keywords[k]), WordCharsOf(call.text))))
    /\ [][pc = "return" /\ call.fn = "contains_keyword" => call'.ret = call.ret]_vars

\* "Go With Guide" matches the keyword "go with guide"
C9_Witness ==
    /\ pc = "return"
    /\ call.fn = "contains_keyword"
    /\ call.text = <<"G","o"," ","W","i","t","h"," ","G","u","i","d","e">>
    /\ call.ret = TRUE

\* C10: normalize_text applied to its own result returns it unchanged, and so
\* does the normalisation of the haystack in contains_keyword.
C10_NormalizeIdempotent ==
    pc = "return" /\ call.fn = "normalize_text" =>
        /\ call.twice = call.once
        /\ call.match_twice = call.match_once

\* a text that normalize_text changes was normalised twice
C10_Witness ==
    /\ pc = "return"
    /\ call.fn = "normalize_text"
    /\ call.once # call.text
    /\ call.match_once # call.once
    /\ call.once # << >>

\* whether element j lies inside a container that its class list flags as
\* promotional
InsideFlagged(doc, j) ==
    \E f \in DOMAIN doc :
        /\ doc[f].tag \in ContainerTags
        /\ is_banner(doc, f)
        /\ IsDescendant(doc, f, j)

\* the container of the iteration of the container loop that ended last
LastContainer == banner_containers(call.doc)[call.container - 1]

\* C11: a container flagged as promotional yields no banner record from its
\* descendants, nested containers included: the iteration of a container that
\* lies inside a flagged container appends nothing.
C11_NoRecordsBelowFlagged ==
    /\ pc = "containers"
    /\ call.fn = "process_url"
    /\ call.container > 1
    /\ InsideFlagged(call.doc, LastContainer)
    => call.appended = << >>

\* C12: every URL in the queue, every link process_url returned and every URL
\* a fetch was attempted on has a host in scope of the main domain: an anchor
\* that leads out of scope is never enqueued and never fetched.
C12_FrontierInScope ==
    /\ \A i \in DOMAIN queue : LabelSuffix(queue[i].netloc, main_domain)
    /\ \A i \in DOMAIN new_links : LabelSuffix(new_links[i].netloc, main_domain)
    /\ \A u \in URLs : fetched[u] > 0 => LabelSuffix(u.netloc, main_domain)
    /\ pc \in {"process", "fetch", "enqueue"} => LabelSuffix(url.netloc, main_domain)

\* a page with an anchor to the lookalike host was analysed, and returned its
\* links into the main domain only
C12_Witness ==
    /\ pc = "enqueue"
    /\ outcome = "analyzed"
    /\ response.hits > 0
    /\ new_links # << >>
    /\ \A i \in DOMAIN new_links : new_links[i] # LookalikeURL

\* a keyword, without its spaces and hyphens, occurs in the word characters of
\* the text
HasKeyword(text) ==
    \E k \in DOMAIN keywords : Occurs(Unseparated(keywords[k]), WordCharsOf(text))

\* the first element of the document that satisfies Test, as a set of at most
\* one index
FirstWhere(doc, Test(_)) ==
    {j \in DOMAIN doc : Test(j) /\ \A i \in 1..(j - 1) : ~Test(i)}

\* the elements the content sections are: the first main, the first article
\* and the first div of class content, each with the number of times it is one
ContentSectionCount(doc) ==
    LET firstMain    == FirstWhere(doc, LAMBDA j : doc[j].tag = "main")
        firstArticle == FirstWhere(doc, LAMBDA j : doc[j].tag = "article")
        firstContent == FirstWhere(doc, LAMBDA j :
                            /\ doc[j].tag = "div"
                            /\ ContentClass \in Range(doc[j].class))
        Matching(S)  == {j \in S : HasKeyword(GetText(doc, j, <<" ">>))}
    IN  Cardinality(Matching(firstMain)) + Cardinality(Matching(firstArticle))
            + Cardinality(Matching(firstContent))

\* C13: the content sections pass appends one record of type "Keyword in main
\* content", with the page's final URL and an empty context, for each of the
\* first main, the first article and the first div of class content whose text
\* contains a keyword, and nothing else: one for a main with a keyword, none
\* for a main without, whatever the other two sections hold.
C13_MainContentRecords ==
    pc = "links" =>
        /\ \A i \in DOMAIN call.appended :
              call.appended[i] = <<call.final_url, "Keyword in main content", << >> >>
        /\ Len(call.appended) = ContentSectionCount(call.doc)
        /\ Len(results) >= Len(call.appended)
        /\ SubSeq(results, Len(results) - Len(call.appended) + 1, Len(results))
              = call.appended

\* a page with a keyword in its main element and in its div of class content:
\* two records
C13_Witness ==
    /\ pc = "links"
    /\ Len(call.appended) = 2
    /\ \E j \in DOMAIN call.doc :
          call.doc[j].tag = "main" /\ HasKeyword(call.doc[j].text)

\* the number of fetches requested so far
Fetches == fetched[RootURL] + fetched[PageURL] + fetched[ShopURL] + fetched[LookalikeURL]

\* the page of the seed has been analysed: it holds no keyword and no link into
\* the main domain
SeedPagePlain ==
    /\ pc = "enqueue"
    /\ visited = {url}
    /\ outcome = "analyzed"
    /\ response.hits = 0
    /\ response.links = 0

\* C14: a run whose seed page holds no keyword and no link into the main
\* domain ends after that one fetch with no result and no file; and in every
\* run no file exists before the loop has ended, the step that ends the loop
\* writes the file if and only if there are results, and the file then holds
\* the header row and the results.
C14_FileAtEndIfResults ==
    /\ SeedPagePlain ~> (/\ pc = "done"
                         /\ Fetches = 1
                         /\ results = << >>
                         /\ csvfile = NoFile)
    /\ [][SeedPagePlain => pc' = "loop" /\ queue' = << >> /\ results' = << >>]_vars
    /\ [](pc # "done" => csvfile = NoFile)
    /\ [](pc = "done" =>
            /\ queue = << >>
            /\ csvfile.written <=> results # << >>
            /\ csvfile.written =>
                  csvfile.rows = << <<"Source URL", "Match Type", "Match Context">> >>
                                     \o results)
    /\ [][pc = "done" => csvfile' = csvfile /\ results' = results]_vars

\* the seed page, without keyword and link, has been analysed: nothing is
\* left to visit
C14_Witness ==
    /\ SeedPagePlain
    /\ Fetches = 1
    /\ queue = << >>
    /\ new_links = << >>
    /\ results = << >>

\* the frontier in the order of entry: the queue, followed by the links that
\* process_url returned and that the loop of line 152 is about to append
Frontier == queue \o (IF pc = "enqueue" THEN new_links ELSE << >>)

\* the place of the first occurrence of u in the sequence q, or 0
FirstPlace(q, u) ==
    IF \E i \in DOMAIN q : q[i] = u
    THEN CHOOSE i \in DOMAIN q : q[i] = u /\ \A j \in 1..(i - 1) : q[j] # u
    ELSE 0

\* u entered the frontier first and neither URL has been fetched: u has been
\* popped for its fetch, or waits in the frontier, while v waits behind it or
\* has not entered yet
Ahead(u, v) ==
    /\ u # v
    /\ fetched[u] = 0
    /\ fetched[v] = 0
    /\ v \notin visited
    /\ ~(pc = "process" /\ url = v)
    /\ \/ pc = "fetch" /\ url = u
       \/ pc = "process" /\ url = u /\ u \notin visited
       \/ /\ u \notin visited
          /\ FirstPlace(Frontier, u) > 0
          /\ \/ FirstPlace(Frontier, v) = 0
             \/ FirstPlace(Frontier, u) < FirstPlace(Frontier, v)

\* C15: the frontier is served first in, first out: once u is ahead of v, v is
\* never fetched unless u has been fetched; the seed, alone in the frontier at
\* the start, is fetched before every other URL.
C15_FifoOrder ==
    \A u, v \in URLs : [](Ahead(u, v) => [](fetched[v] > 0 => fetched[u] > 0))

\* both links of the seed page have been fetched, the one that was appended
\* first among them
C15_Witness ==
    /\ pc = "enqueue"
    /\ url = ShopURL
    /\ fetched[RootURL] = 1
    /\ fetched[PageURL] = 1
    /\ fetched[ShopURL] = 1
    /\ queue = << >>

\* the elements of the document that are links with an href, and whose text or
\* resolved URL holds a keyword
KeywordLinks(doc, final_url) ==
    {j \in DOMAIN doc :
        /\ doc[j].tag \in {"a", "link", "area", "base"}
        /\ doc[j].href # NoHref
        /\ \/ HasKeyword(GetText(doc, j, << >>))
           \/ HasKeyword(UrlString(urljoin(final_url, doc[j].href)))}

\* the record of the keyword link j
LinkRecord(doc, final_url, j) ==
    <<final_url, "Keyword in link", UrlString(urljoin(final_url, doc[j].href))>>

\* C16: the keyword-in-link pass appends one record for each a, link, area or
\* base element with an href whose text or resolved URL holds a keyword, in
\* document order and whether or not the target is in scope, and nothing else;
\* the links process_url returns afterwards are all in scope, and returning
\* them leaves the results as they are.
C16_LinkRecords ==
    /\ [](pc = "extract" =>
            LET links == KeywordLinks(call.doc, call.final_url)
            IN  /\ Len(call.appended) = Cardinality(links)
                /\ \A j \in links : \E i \in DOMAIN call.appended :
                      /\ call.appended[i] = LinkRecord(call.doc, call.final_url, j)
                      /\ i = Cardinality({k \in links : k <= j})
                /\ SubSeq(results, Len(results) - Len(call.appended) + 1, Len(results))
                      = call.appended)
    /\ [](pc = "return" =>
            \A i \in DOMAIN new_links : LabelSuffix(new_links[i].netloc, main_domain))
    /\ [][pc = "extract" => results' = results /\ queue' = queue]_vars

\* a page with a keyword link to the lookalike host and a link into the main
\* domain: the first is recorded, the second returned
C16_Witness ==
    /\ pc = "return"
    /\ call.fn = "process_url"
    /\ results = << <<RootURL, "Keyword in link", UrlString(LookalikeURL)>> >>
    /\ new_links = <<PageURL>>

\* the registrable domain of a host under a public suffix of one label, such as
\* com: the last two labels of the host
RegistrableDomain(host) == Join(SliceLast(Split(host, "."), 2), <<".">>)

\* C17: the anchor of every scope test is the registrable domain of the seed
\* URL: before the first visit, main_domain is the registrable domain of the
\* host of the one URL in the queue.
C17_AnchorIsRegistrableDomain ==
    pc = "loop" /\ visited = {} /\ Len(queue) = 1 =>
        main_domain = RegistrableDomain(queue[1].netloc)

\* C18: every record of results carries a source URL whose host is in scope of
\* the main domain; records are appended only by the analysis of an HTML page
\* whose final URL is in scope, as many as the page holds, each with that final
\* URL as its source, also when a redirect led away from the URL requested;
\* and an anchor relative to the page is returned as a link on the host of the
\* final URL, unless that link is in visited.
C18_RecordsCarryFinalUrl ==
    /\ [](\A i \in DOMAIN results : LabelSuffix(results[i][1].netloc, main_domain))
    /\ [][/\ Len(results') >= Len(results)
          /\ SubSeq(results', 1, Len(results)) = results
          /\ results' # results =>
                /\ pc = "fetch"
                /\ response'.status = "html"
                /\ LabelSuffix(response'.final_url.netloc, main_domain)
                /\ Len(results') = Len(results) + response'.hits
                /\ \A i \in (DOMAIN results') \ (DOMAIN results) :
                      results'[i][1] = response'.final_url
          /\ pc = "fetch" /\ outcome' = "analyzed" /\ response'.relative > 0 =>
                LET target == [netloc |-> response'.final_url.netloc, path |-> <<"/">>]
                IN  target \in visited \/ \E i \in DOMAIN new_links' : new_links'[i] = target
          /\ pc = "fetch" /\ outcome' = "analyzed" =>
                \A i \in DOMAIN new_links' :
                    \/ new_links'[i] \in {PageURL, ShopURL}
                    \/ new_links'[i].netloc = response'.final_url.netloc]_vars

\* the request of one page was redirected to another page of the main domain,
\* whose records carry its URL and whose only links are relative to it
C18_Witness ==
    /\ pc = "enqueue"
    /\ outcome = "analyzed"
    /\ url = PageURL
    /\ response.final_url = ShopURL
    /\ response.hits > 0
    /\ response.relative = response.links
    /\ new_links = <<ShopURL>>
    /\ results # << >>
    /\ results[Len(results)][1] = ShopURL

\* the class list of element i, joined by spaces and in lower case, holds one
\* of the promotional terms
Promotional(doc, i) ==
    \E t \in DOMAIN banner_terms :
        Occurs(banner_terms[t], Lower(Join(doc[i].class, <<" ">>)))

\* C19: the iteration of the container loop on a container that its class list
\* flags as promotional appends no record, whatever the container's own text,
\* images and style hold.
C19_FlaggedIterationSilent ==
    [][/\ pc = "containers"
       /\ call.fn = "process_url"
       /\ call.container <= Len(banner_containers(call.doc))
       /\ Promotional(call.doc, banner_containers(call.doc)[call.container])
       => /\ results' = results
          /\ call'.appended = << >>
          /\ pc' = "containers"
          /\ call'.container = call.container + 1]_vars

\* the iteration on a flagged container with a keyword in its own text has
\* ended
C19_Witness ==
    /\ pc = "containers"
    /\ call.fn = "process_url"
    /\ call.container = 2
    /\ Promotional(call.doc, 1)
    /\ HasKeyword(call.doc[1].text)
    /\ call.appended = << >>
    /\ results = << >>

====
